---- MODULE Spec2Model ----
(***************************************************************************)
(* A model of the HackRx query system: the PDF fetcher and chunker         *)
(* (document_processor.py), the vector store gateway (vector_manager.py)   *)
(* and the request handler run_submission with its concurrent completion   *)
(* calls (main.py).                                                        *)
(*                                                                         *)
(* Strings are sequences of characters (1-based here, 0-based in Python).  *)
(***************************************************************************)
EXTENDS Integers, Sequences, FiniteSets, TLC

\* ------------------------------------------------------------------------
\* Bounds of the model
\* ------------------------------------------------------------------------

\* Longest extracted text handed to the chunker in SpecChunk.
MaxTextLen == 2400

\* Requests received in one behaviour.
MaxRequests == 2

\* Longest list of questions in a request.
MaxQuestions == 2

\* ------------------------------------------------------------------------
\* Python helpers
\* ------------------------------------------------------------------------

Min(a, b) == IF a < b THEN a ELSE b

\* s[i:j] for 0 <= i <= j: the characters at 0-based positions i .. j-1 that
\* exist; positions past the end are dropped without an error.
Slice(s, i, j) == SubSeq(s, i + 1, Min(j, Len(s)))

\* list(range(start, stop, step)) for step > 0.
RECURSIVE Range(_, _, _)
Range(start, stop, step) ==
    IF start < stop THEN <<start>> \o Range(start + step, stop, step) ELSE <<>>

\* "".join(xs): the strings of xs one after another.
RECURSIVE Concat(_)
Concat(xs) == IF xs = <<>> THEN <<>> ELSE Head(xs) \o Concat(Tail(xs))

\* sep.join(xs)
RECURSIVE Join(_, _)
Join(sep, xs) ==
    IF xs = <<>> THEN <<>>
    ELSE IF Len(xs) = 1 THEN xs[1]
    ELSE xs[1] \o sep \o Join(sep, Tail(xs))

\* [x for x in xs if x]: the non-empty strings of xs, in order.
RECURSIVE NonEmpty(_)
NonEmpty(xs) ==
    IF xs = <<>> THEN <<>>
    ELSE IF Head(xs) # <<>> THEN <<Head(xs)>> \o NonEmpty(Tail(xs))
    ELSE NonEmpty(Tail(xs))

\* ------------------------------------------------------------------------
\* document_processor.py: chunking
\* ------------------------------------------------------------------------

chunk_size == 1000
overlap == 200

\* A chunker that forgets the overlap: windows start every chunk_size.
ChunkTextNoOverlap(full_text) ==
    LET starts == Range(0, Len(full_text), chunk_size)
    IN  [k \in 1..Len(starts) |-> Slice(full_text, starts[k], starts[k] + chunk_size)]

\* A chunker that drops a short last window.
ChunkTextDropsTail(full_text) ==
    LET starts == Range(0, Len(full_text) - chunk_size + 1, chunk_size - overlap)
    IN  [k \in 1..Len(starts) |-> Slice(full_text, starts[k], starts[k] + chunk_size)]

\* A chunker whose windows are one character short.
ChunkTextShortWindow(full_text) ==
    LET starts == Range(0, Len(full_text), chunk_size - overlap)
    IN  [k \in 1..Len(starts) |->
            Slice(full_text, starts[k], starts[k] + chunk_size - 1)]

\* chunks = [full_text[i:i+chunk_size]
\*           for i in range(0, len(full_text), chunk_size - overlap)]
ChunkText(full_text) ==
    LET starts == Range(0, Len(full_text), chunk_size - overlap)
    IN  [k \in 1..Len(starts) |-> Slice(full_text, starts[k], starts[k] + chunk_size)]

\* ------------------------------------------------------------------------
\* document_processor.py: fetching
\* ------------------------------------------------------------------------

\* n copies of the character c.
Repeat(c, n) == [p \in 1..n |-> c]

\* What requests.get followed by PdfReader can make of a URL. A reply is
\*   [kind |-> "ConnectionError" | "Timeout" | "HTTPError"]  requests raises
\*       (HTTPError is raise_for_status on a non-2xx status),
\*   [kind |-> "PdfReadError"]                                PdfReader raises,
\*   [kind |-> "pdf", pages |-> <<text of page 1, ...>>]      a parsed PDF; a
\*       page without extractable text has the text <<>>.
\* Any URL can fail on the network; otherwise the URL decides.
WebReplies(url) ==
    {[kind |-> "ConnectionError"], [kind |-> "Timeout"]} \cup
    CASE url = "policy.pdf"  ->
             {[kind |-> "pdf", pages |-> <<Repeat("p", 600), <<>>, Repeat("q", 300)>>]}
      [] url = "memo.pdf"    -> {[kind |-> "pdf", pages |-> <<Repeat("m", 40)>>]}
      [] url = "scan.pdf"    -> {[kind |-> "pdf", pages |-> <<<<>>, <<>>>>]}
      [] url = "nopages.pdf" -> {[kind |-> "pdf", pages |-> <<>>]}
      [] url = "corrupt.pdf" -> {[kind |-> "PdfReadError"]}
      [] OTHER               -> {[kind |-> "HTTPError"]}

\* The subclasses of requests.exceptions.RequestException among the replies.
RequestExceptions == {"ConnectionError", "Timeout", "HTTPError"}

\* A fetcher that returns one empty chunk for a PDF without text, as
\* range(0, max(len(full_text), 1), ...) would.
process_pdf_blank_chunk(reply) ==
    IF reply.kind # "pdf" THEN <<>>
    ELSE IF reply.pages = <<>> THEN <<>>
    ELSE LET full == Concat(NonEmpty(reply.pages))
         IN  IF full = <<>> THEN << <<>> >> ELSE ChunkText(full)

\* process_pdf_from_url, given what the download and the parser produced:
\* both except clauses and the no-pages test return [], otherwise the text of
\* the pages that have text is joined and chunked.
process_pdf_from_url(reply) ==
    IF reply.kind \in RequestExceptions THEN <<>>
    ELSE IF reply.kind # "pdf" THEN <<>>
    ELSE IF reply.pages = <<>> THEN <<>>
    ELSE ChunkText(Concat(NonEmpty(reply.pages)))

\* ------------------------------------------------------------------------
\* vector_manager.py
\* ------------------------------------------------------------------------

INDEX_NAME == "hackrx-index"
NAMESPACE == "doc-namespace"
top_k == 3

\* f"vec-{i}"
VecId(i) == "vec-" \o ToString(i)

\* All but the last chunk.
VectorsButLast(chunks_in) ==
    [i \in 1..(Len(chunks_in) - 1) |->
        [id |-> VecId(i - 1), metadata |-> [text |-> chunks_in[i]]]]

\* The list embed_and_store builds: chunk i (0-based) gets the
\* id vec-i and its text as metadata. The embedding values are left out: only
\* the store's similarity search reads them, and its ranking is arbitrary here.
vectors_to_upsert(chunks_in) ==
    [i \in 1..Len(chunks_in) |->
        [id |-> VecId(i - 1), metadata |-> [text |-> chunks_in[i]]]]

\* The records of namespace ns of the store st (none if never written).
Records(st, ns) == IF ns \in DOMAIN st THEN st[ns] ELSE <<>>

\* An upsert that first clears the namespace.
UpsertReplacing(st, ns, vectors) ==
    [n \in DOMAIN st \cup {ns} |->
        IF n = ns
        THEN [id \in {vectors[i].id : i \in DOMAIN vectors} |->
                 (CHOOSE v \in {vectors[i] : i \in DOMAIN vectors} : v.id = id).metadata]
        ELSE st[n]]

\* index.upsert(vectors, namespace): a record whose id is already stored is
\* overwritten, every other stored record is kept.
Upsert(st, ns, vectors) ==
    LET old == Records(st, ns)
        ids == {vectors[i].id : i \in DOMAIN vectors}
        last(id) == vectors[CHOOSE i \in DOMAIN vectors :
                        /\ vectors[i].id = id
                        /\ \A j \in DOMAIN vectors : vectors[j].id = id => j <= i]
    IN  [n \in DOMAIN st \cup {ns} |->
            IF n = ns
            THEN [id \in DOMAIN old \cup ids |->
                     IF id \in ids THEN last(id).metadata ELSE old[id]]
            ELSE st[n]]

\* index.query(top_k, namespace, include_metadata): the ids of the top_k
\* records by similarity, best first. The similarity of a question to a record
\* is the embedding provider's, so every ranking is possible.
Matches(st, ns) ==
    LET recs == Records(st, ns)
        n == Min(top_k, Cardinality(DOMAIN recs))
    IN  {m \in [1..n -> DOMAIN recs] : \A i, j \in 1..n : m[i] = m[j] => i = j}

\* context = " ".join(match['metadata']['text'] for match in results['matches'])
Context(st, ns, m) ==
    Join(<<" ">>, [i \in DOMAIN m |-> Records(st, ns)[m[i]].text])

\* ------------------------------------------------------------------------
\* main.py: pure parts
\* ------------------------------------------------------------------------

\* An Optional[str]: None is <<>>, the string x is <<x>>.
None == <<>>
Some(x) == <<x>>

\* The process environment after load_dotenv().
environ == [AUTH_TOKEN |-> "s3cret"]

\* os.getenv(name)
getenv(name) == IF name \in DOMAIN environ THEN Some(environ[name]) ELSE None

\* f"{x}" for an Optional[str]
Format(x) == IF x = None THEN "None" ELSE x[1]

\* expected_token = f"Bearer {os.getenv('AUTH_TOKEN')}"
expected_token == "Bearer " \o Format(getenv("AUTH_TOKEN"))

\* A check that lets a request without the header through.
RejectedUnlessMissing(authorization) ==
    authorization # None /\ authorization # Some(expected_token)

\* if authorization != expected_token: raise HTTPException(403)
Rejected(authorization) == authorization # Some(expected_token)

ERROR_ANSWER == "Error processing the question."

\* What the completion provider can reply to a question: an answer to it, or
\* the fallback sentence the system prompt asks for.
Replies(question) ==
    {"answer to " \o question, "The answer is not available in the provided context."}

\* Results in the order the calls finished.
ResultsAsCompleted(tasks, order) == [i \in DOMAIN order |-> tasks[order[i]].result]

\* asyncio.gather(*answer_tasks): the results in the order of the awaitables
\* passed in, whatever the order they finished in.
GatherResults(tasks, order) == [i \in DOMAIN tasks |-> tasks[i].result]

\* ------------------------------------------------------------------------
\* State
\* ------------------------------------------------------------------------

VARIABLES
    index_names,    \* Pinecone: the names pc.list_indexes().names() returns
    store,          \* Pinecone: namespace -> (record id -> metadata) of the index
    arrived,        \* how many requests have been received
    pc,             \* where run_submission stands ("idle": no request in progress)
    request,        \* the authorization header and the QueryRequest body
    text_chunks,    \* run_submission's text_chunks
    answer_tasks,   \* run_submission's answer_tasks
    response,       \* the HTTP response
    calls,          \* history: the provider calls the handler has made
    finish_order,   \* history: the tasks in the order they finished
    index_calls,    \* history: the chunk lists of the upserts that succeeded
    before,         \* history: the index names and the store when the request arrived
    full_text,      \* chunker: the text extracted from the PDF
    chunks,         \* chunker: the list it returned
    stage           \* chunker: "text" before the comprehension, "chunked" after

server_vars == <<index_names, store, arrived, pc, request, text_chunks,
                 answer_tasks, response, calls, finish_order, index_calls, before>>
chunk_vars == <<full_text, chunks, stage>>
vars == <<server_vars, chunk_vars>>

\* ------------------------------------------------------------------------
\* main.py: the server. Requests are handled one after another: a handler
\* holds the event loop from its first line to its await, and the model does
\* not start a second request while the first one's completions are awaited.
\* ------------------------------------------------------------------------

NoRequest == [authorization |-> None, documents |-> "", questions |-> <<>>]
NoResponse == [status |-> 0, answers |-> <<>>]

\* The i-th question a client asks.
Question(i) == "Q" \o ToString(i)

Headers ==
    {None, Some(expected_token), Some("Bearer wrong"), Some(environ.AUTH_TOKEN)}
Urls == {"policy.pdf", "memo.pdf", "scan.pdf", "nopages.pdf", "corrupt.pdf", "gone.pdf"}
QuestionLists == {[i \in 1..n |-> Question(i)] : n \in 0..MaxQuestions}

\* An entry of the call history: the call, whether it returned (ok) or
\* raised, the question it was made for (q, 0: none), the number of chunks or
\* vectors it carried (n), the ids a query matched (ids) and whether the
\* namespace held all the request's own chunks when a query ran (own). A
\* completion call that raises adds the entry "completion_raised".
Call(op, ok) == [op |-> op, ok |-> ok, q |-> 0, n |-> 0, ids |-> <<>>, own |-> FALSE]

InitServer ==
    /\ index_names = {}
    /\ store = <<>>
    /\ arrived = 0
    /\ pc = "idle"
    /\ request = NoRequest
    /\ text_chunks = <<>>
    /\ answer_tasks = <<>>
    /\ response = NoResponse
    /\ calls = <<>>
    /\ finish_order = <<>>
    /\ index_calls = <<>>
    /\ before = [index_names |-> {}, store |-> <<>>]

InitNoChunking ==
    /\ full_text = <<>>
    /\ chunks = <<>>
    /\ stage = "idle"

Init == InitServer /\ InitNoChunking

\* The handler ends with an HTTP response: 200 with the answers, the status
\* of an HTTPException, or 500 for an exception nothing catches.
Respond(status, answers) ==
    /\ response' = [status |-> status, answers |-> answers]
    /\ pc' = "done"

Log(entries) == calls' = calls \o entries

\* A POST /api/v1/hackrx/run is received.
Arrive ==
    /\ pc = "idle"
    /\ arrived < MaxRequests
    /\ \E h \in Headers, u \in Urls, qs \in QuestionLists :
           request' = [authorization |-> h, documents |-> u, questions |-> qs]
    /\ arrived' = arrived + 1
    /\ pc' = "auth"
    /\ before' = [index_names |-> index_names, store |-> store]
    /\ UNCHANGED <<index_names, store, text_chunks, answer_tasks, response,
                   calls, finish_order, index_calls, chunk_vars>>

\* main.py 51-53: the token check.
CheckAuth ==
    /\ pc = "auth"
    /\ IF Rejected(request.authorization)
       THEN Respond(403, <<>>)
       ELSE pc' = "setup" /\ UNCHANGED response
    /\ UNCHANGED <<index_names, store, arrived, request, text_chunks, answer_tasks,
                   calls, finish_order, index_calls, before, chunk_vars>>

\* main.py 56, vector_manager.py 19-31. list_indexes or
\* create_index may raise, which ends the request with a 500.
setup_pinecone ==
    /\ pc = "setup"
    /\ \/ /\ Log(<<Call("list_indexes", FALSE)>>)
          /\ Respond(500, <<>>)
          /\ UNCHANGED index_names
       \/ /\ INDEX_NAME \in index_names
          /\ Log(<<Call("list_indexes", TRUE)>>)
          /\ pc' = "fetch"
          /\ UNCHANGED <<index_names, response>>
       \/ /\ INDEX_NAME \notin index_names
          /\ Log(<<Call("list_indexes", TRUE), Call("create_index", FALSE)>>)
          /\ Respond(500, <<>>)
          /\ UNCHANGED index_names
       \/ /\ INDEX_NAME \notin index_names
          /\ Log(<<Call("list_indexes", TRUE), Call("create_index", TRUE)>>)
          /\ index_names' = index_names \cup {INDEX_NAME}
          /\ pc' = "fetch"
          /\ UNCHANGED response
    /\ UNCHANGED <<store, arrived, request, text_chunks, answer_tasks, finish_order,
                   index_calls, before, chunk_vars>>

\* main.py 59-61: process_pdf_from_url, then the 400 for an empty result.
ProcessPdf ==
    /\ pc = "fetch"
    /\ \E reply \in WebReplies(request.documents) :
           LET got == process_pdf_from_url(reply)
           IN  /\ text_chunks' = got
               /\ Log(<<[Call("fetch", reply.kind = "pdf") EXCEPT !.n = Len(got)]>>)
               /\ IF got = <<>>
                  THEN Respond(400, <<>>)
                  ELSE pc' = "embed" /\ UNCHANGED response
    /\ UNCHANGED <<index_names, store, arrived, request, answer_tasks, finish_order,
                   index_calls, before, chunk_vars>>

\* main.py 64, vector_manager.py 33-57. The embedding call
\* or the upsert may raise, which ends the request with a 500 and writes
\* nothing.
embed_and_store ==
    /\ pc = "embed"
    /\ LET vectors == vectors_to_upsert(text_chunks)
           n == Len(text_chunks)
       IN  \/ /\ Log(<<[Call("embed", FALSE) EXCEPT !.n = n]>>)
              /\ Respond(500, <<>>)
              /\ UNCHANGED <<store, index_calls>>
           \/ /\ Log(<<[Call("embed", TRUE) EXCEPT !.n = n],
                       [Call("upsert", FALSE) EXCEPT !.n = Len(vectors)]>>)
              /\ Respond(500, <<>>)
              /\ UNCHANGED <<store, index_calls>>
           \/ /\ Log(<<[Call("embed", TRUE) EXCEPT !.n = n],
                       [Call("upsert", TRUE) EXCEPT !.n = Len(vectors)]>>)
              /\ store' = Upsert(store, NAMESPACE, vectors)
              /\ index_calls' = Append(index_calls, text_chunks)
              /\ pc' = "questions"
              /\ UNCHANGED response
    /\ UNCHANGED <<index_names, arrived, request, text_chunks, answer_tasks,
                   finish_order, before, chunk_vars>>

\* Whether the namespace holds every chunk of the request under its id.
OwnChunksStored ==
    \A i \in DOMAIN text_chunks :
        /\ VecId(i - 1) \in DOMAIN Records(store, NAMESPACE)
        /\ Records(store, NAMESPACE)[VecId(i - 1)].text = text_chunks[i]

\* The question the for loop of main.py 68 is at (1-based).
LoopIndex == Len(answer_tasks) + 1

\* main.py 68-72, vector_manager.py 59-84: one pass of the loop. The handler
\* calls query_vector_db itself, then makes the coroutine for the question
\* without starting it. Either provider call of query_vector_db may raise:
\* nothing catches it, and the request ends with a 500.
query_vector_db ==
    /\ pc = "questions"
    /\ LoopIndex <= Len(request.questions)
    /\ LET i == LoopIndex
           question == request.questions[i]
       IN  \/ /\ Log(<<[Call("embed_query", FALSE) EXCEPT !.q = i]>>)
              /\ Respond(500, <<>>)
              /\ UNCHANGED answer_tasks
           \/ /\ Log(<<[Call("embed_query", TRUE) EXCEPT !.q = i],
                       [Call("query", FALSE) EXCEPT !.q = i]>>)
              /\ Respond(500, <<>>)
              /\ UNCHANGED answer_tasks
           \/ \E m \in Matches(store, NAMESPACE) :
                  /\ Log(<<[Call("embed_query", TRUE) EXCEPT !.q = i],
                           [Call("query", TRUE) EXCEPT
                               !.q = i, !.ids = m, !.own = OwnChunksStored]>>)
                  /\ answer_tasks' = Append(answer_tasks,
                         [context |-> Context(store, NAMESPACE, m), question |-> question,
                          state |-> "pending", result |-> ""])
                  /\ UNCHANGED <<pc, response>>
    /\ UNCHANGED <<index_names, store, arrived, request, text_chunks, finish_order,
                   index_calls, before, chunk_vars>>

\* main.py 74: await asyncio.gather(*answer_tasks) after the loop. The
\* coroutines become tasks and the handler leaves the event loop to them.
Gather ==
    /\ pc = "questions"
    /\ LoopIndex > Len(request.questions)
    /\ pc' = "gathering"
    /\ UNCHANGED <<index_names, store, arrived, request, text_chunks, answer_tasks,
                   response, calls, finish_order, index_calls, before, chunk_vars>>

\* main.py 30-39: a task of the gather starts get_answer_from_llm, which hands
\* the completion call to a worker thread (asyncio.to_thread).
StartCompletion(i) ==
    /\ pc = "gathering"
    /\ i \in DOMAIN answer_tasks
    /\ answer_tasks[i].state = "pending"
    /\ answer_tasks' = [answer_tasks EXCEPT ![i].state = "in_flight"]
    /\ Log(<<[Call("completion", TRUE) EXCEPT !.q = i]>>)
    /\ UNCHANGED <<index_names, store, arrived, pc, request, text_chunks,
                   response, finish_order, index_calls, before, chunk_vars>>

\* main.py 40-43: the completion call of task i returns, or raises and the
\* except clause returns the error string. The calls finish in any order.
FinishCompletion(i) ==
    /\ pc = "gathering"
    /\ i \in DOMAIN answer_tasks
    /\ answer_tasks[i].state = "in_flight"
    /\ \/ /\ \E r \in Replies(answer_tasks[i].question) :
                 answer_tasks' = [answer_tasks EXCEPT ![i].state = "done", ![i].result = r]
          /\ UNCHANGED calls
       \/ /\ answer_tasks' = [answer_tasks EXCEPT ![i].state = "done",
                                                  ![i].result = ERROR_ANSWER]
          /\ Log(<<[Call("completion_raised", FALSE) EXCEPT !.q = i]>>)
    /\ finish_order' = Append(finish_order, i)
    /\ UNCHANGED <<index_names, store, arrived, pc, request, text_chunks,
                   response, index_calls, before, chunk_vars>>

\* main.py 74-76: every task is done, the gather hands back its list and the
\* handler returns it.
Return ==
    /\ pc = "gathering"
    /\ \A i \in DOMAIN answer_tasks : answer_tasks[i].state = "done"
    /\ Respond(200, GatherResults(answer_tasks, finish_order))
    /\ UNCHANGED <<index_names, store, arrived, request, text_chunks, answer_tasks,
                   calls, finish_order, index_calls, before, chunk_vars>>

\* The response has been sent and the handler's frame is gone.
Deliver ==
    /\ pc = "done"
    /\ pc' = "idle"
    /\ request' = NoRequest
    /\ text_chunks' = <<>>
    /\ answer_tasks' = <<>>
    /\ response' = NoResponse
    /\ calls' = <<>>
    /\ finish_order' = <<>>
    /\ UNCHANGED <<index_names, store, arrived, index_calls, before, chunk_vars>>

Next ==
    \/ Arrive
    \/ CheckAuth
    \/ setup_pinecone
    \/ ProcessPdf
    \/ embed_and_store
    \/ query_vector_db
    \/ Gather
    \/ \E i \in 1..MaxQuestions : StartCompletion(i)
    \/ \E i \in 1..MaxQuestions : FinishCompletion(i)
    \/ Return
    \/ Deliver

Spec == Init /\ [][Next]_vars

\* ------------------------------------------------------------------------
\* Claims about the server (checked under Spec)
\* ------------------------------------------------------------------------

\* The entries of the call history.
Made == {calls[j] : j \in DOMAIN calls}

\* The calls made for the questions of a request.
QuestionOps == {"embed_query", "query", "completion", "completion_raised"}

\* C1: a request answered with 200 returns one answer per question, and entry
\* i is what the completion call for question i produced, whatever the order
\* the calls finished in.
C1_AnswersInQuestionOrder ==
    (pc = "done" /\ response.status = 200) =>
        /\ Len(response.answers) = Len(request.questions)
        /\ \A i \in DOMAIN request.questions :
               /\ answer_tasks[i].question = request.questions[i]
               /\ response.answers[i] = answer_tasks[i].result
               /\ response.answers[i] \in
                      {"answer to " \o request.questions[i],
                       "The answer is not available in the provided context.",
                       "Error processing the question."}

C1_Witness ==
    /\ pc = "done"
    /\ response.status = 200
    /\ request.questions = <<"Q1", "Q2">>
    /\ finish_order = <<2, 1>>
    /\ response.answers = <<"answer to Q1", "answer to Q2">>

\* Whether the unit of work of question i has failed: a call of its
\* retrieval or its completion call raised.
UnitFailed(i) == \E e \in Made : e.q = i /\ ~e.ok

\* C2 as stated: a provider failure in a question's retrieval or completion
\* does not fail the request; the request returns the answers with the error
\* string in the failing question's slot and every other question's own
\* answer in its slot.
C2_QuestionFailureStaysLocal ==
    (pc = "done" /\ \E e \in Made : e.op \in QuestionOps) =>
        /\ response.status = 200
        /\ Len(response.answers) = Len(request.questions)
        /\ \A i \in DOMAIN request.questions :
               IF UnitFailed(i)
               THEN response.answers[i] = "Error processing the question."
               ELSE response.answers[i] \in
                        {"answer to " \o request.questions[i],
                         "The answer is not available in the provided context."}

\* C3: a request whose Authorization header is missing or is not
\* "Bearer <token>" is rejected with 403 before any provider call or document
\* fetch; the index and the store are as they were.
C3_BadTokenRejectedFirst ==
    (pc # "idle" /\ request.authorization # <<"Bearer s3cret">>) =>
        /\ pc \in {"auth", "done"}
        /\ pc = "done" => response.status = 403
        /\ calls = <<>>
        /\ text_chunks = <<>>
        /\ answer_tasks = <<>>
        /\ index_names = before.index_names
        /\ store = before.store

C3_Witness ==
    /\ pc = "done"
    /\ response.status = 403
    /\ request.authorization = None
    /\ arrived = 2
    /\ store # <<>>

\* The download of the request's document, once made.
Fetched == {e \in Made : e.op = "fetch"}

\* C4: when fetching and chunking yields no chunks (as every download error,
\* parse error, PDF without pages and PDF without text does) the request is
\* rejected with 400 and makes no embedding, upsert, retrieval or completion
\* call; the namespace is as it was.
C4_NoChunksMeans400 ==
    /\ \A e \in Fetched : ~e.ok => text_chunks = <<>>
    /\ (Fetched # {} /\ request.documents \in {"scan.pdf", "nopages.pdf", "corrupt.pdf", "gone.pdf"})
           => text_chunks = <<>>
    /\ (Fetched # {} /\ text_chunks = <<>>) =>
           /\ pc = "done"
           /\ response.status = 400
           /\ \A e \in Made : e.op \in {"list_indexes", "create_index", "fetch"}
           /\ store = before.store

C4_Witness ==
    /\ pc = "done"
    /\ response.status = 400
    /\ request.documents = "scan.pdf"
    /\ \E e \in Fetched : e.ok
    /\ store # <<>>

\* C8 as stated: a question whose context has been retrieved does not wait
\* for another question's retrieval before its completion call can start, and
\* the handler returns only when every completion call is done.
C8_UnitsIndependent ==
    /\ \A i \in DOMAIN answer_tasks :
           (answer_tasks[i].state = "pending" /\ pc # "done"
                /\ Len(answer_tasks) < Len(request.questions))
               => ENABLED StartCompletion(i)
    /\ (pc = "done" /\ response.status = 200) =>
           \A i \in DOMAIN answer_tasks : answer_tasks[i].state = "done"

\* C9: every retrieval and completion call of a request comes after the
\* upsert of all its chunks has returned, and every retrieval finds all the
\* request's chunks in the namespace.
C9_IndexedBeforeQuestions ==
    \A j \in DOMAIN calls :
        calls[j].op \in QuestionOps =>
            /\ \E k \in 1..(j - 1) :
                   /\ calls[k].op = "upsert"
                   /\ calls[k].ok
                   /\ calls[k].n = Len(text_chunks)
            /\ (calls[j].op = "query" /\ calls[j].ok) => calls[j].own

C9_Witness ==
    /\ pc = "gathering"
    /\ Len(text_chunks) = 2
    /\ \E e \in Made : e.op = "completion"
    /\ \E e \in Made : e.op = "query" /\ e.ok /\ e.own

\* The greatest element of a non-empty set of numbers.
Max(S) == CHOOSE x \in S : \A y \in S : y <= x

\* The indexing calls that carried a chunk i (0-based).
CallsWithChunk(i) == {j \in DOMAIN index_calls : Len(index_calls[j]) > i}

\* C10: the only namespace written is "doc-namespace"; after any sequence of
\* indexing calls it holds under vec-i the text of chunk i of the latest call
\* that had more than i chunks, and no other record: what an earlier, longer
\* document stored beyond the length of a later one is still there.
C10_StaleRecordsRemain ==
    LET recs == Records(store, "doc-namespace")
        longest == Max({0} \cup {Len(index_calls[j]) : j \in DOMAIN index_calls})
    IN  /\ DOMAIN store \subseteq {"doc-namespace"}
        /\ DOMAIN recs = {"vec-" \o ToString(i) : i \in 0..(longest - 1)}
        /\ \A i \in 0..(longest - 1) :
               recs["vec-" \o ToString(i)].text = index_calls[Max(CallsWithChunk(i))][i + 1]

C10_Witness ==
    /\ Len(index_calls) = 2
    /\ Len(index_calls[1]) = 2
    /\ Len(index_calls[2]) = 1
    /\ request.documents = "memo.pdf"
    /\ store["doc-namespace"]["vec-1"].text = index_calls[1][2]
    /\ \E e \in Made : e.op = "query" /\ e.ok /\ \E x \in DOMAIN e.ids : e.ids[x] = "vec-1"

\* ------------------------------------------------------------------------
\* The chunker alone, on texts of every length up to MaxTextLen
\* ------------------------------------------------------------------------

\* "AB" repeated to length n.
ABText(n) == [p \in 1..n |-> IF p % 2 = 1 THEN "A" ELSE "B"]

\* A text of length n whose characters are all different: the character at
\* 0-based position p is the decimal numeral of p.
TaggedText(n) == [p \in 1..n |-> ToString(p - 1)]

InitChunk ==
    /\ InitServer
    /\ full_text \in {ABText(n) : n \in 0..MaxTextLen}
                        \cup {TaggedText(n) : n \in 0..MaxTextLen}
    /\ chunks = <<>>
    /\ stage = "text"

Chunk ==
    /\ stage = "text"
    /\ chunks' = ChunkText(full_text)
    /\ stage' = "chunked"
    /\ UNCHANGED <<full_text, server_vars>>

NextChunk == Chunk

SpecChunk == InitChunk /\ [][NextChunk]_vars

\* ------------------------------------------------------------------------
\* Claims about the chunker (checked under SpecChunk)
\* ------------------------------------------------------------------------

\* ceil(a / b) for a >= 0, b > 0
CeilDiv(a, b) == (a + b - 1) \div b

\* C5: for every text length N the chunker returns ceil(N/800) chunks (0 for
\* N = 0), chunk k is the window of the text starting at offset 800*k, and
\* every character position p lies in chunk floor(p/800).
C5_ChunkCountAndCover ==
    stage = "chunked" =>
        LET N == Len(full_text)
        IN  /\ Len(chunks) = (IF N > 0 THEN CeilDiv(N, 800) ELSE 0)
            /\ \A k \in 0..(Len(chunks) - 1) :
                   chunks[k + 1] = SubSeq(full_text, 800 * k + 1, Min(800 * k + 1000, N))
            /\ \A p \in 0..(N - 1) :
                   LET c == p \div 800
                   IN  /\ c + 1 \in DOMAIN chunks
                       /\ p - 800 * c + 1 \in DOMAIN chunks[c + 1]
                       /\ chunks[c + 1][p - 800 * c + 1] = full_text[p + 1]

C5_Witness ==
    /\ stage = "chunked"
    /\ full_text = TaggedText(1601)
    /\ Len(chunks) = 3

\* The last n characters of s, and the first n.
Suffix(s, n) == SubSeq(s, Len(s) - n + 1, Len(s))
Prefix(s, n) == SubSeq(s, 1, n)

\* The characters two windows of a text of distinct characters have in common.
Shared(a, b) == {a[i] : i \in DOMAIN a} \cap {b[i] : i \in DOMAIN b}

\* C6: consecutive chunks k, k+1 share exactly 200 characters of the text, the
\* last 200 of chunk k being the first 200 of chunk k+1, except possibly when
\* chunk k+1 is the last chunk.
C6_ConsecutiveOverlap ==
    stage = "chunked" =>
        \A k \in 1..(Len(chunks) - 2) :
            /\ Len(chunks[k]) >= 200
            /\ Len(chunks[k + 1]) >= 200
            /\ Suffix(chunks[k], 200) = Prefix(chunks[k + 1], 200)
            /\ full_text = TaggedText(Len(full_text)) =>
                   Cardinality(Shared(chunks[k], chunks[k + 1])) = 200

C6_Witness ==
    /\ stage = "chunked"
    /\ full_text = TaggedText(2400)
    /\ Len(chunks) = 3
    /\ Suffix(chunks[1], 200) = Prefix(chunks[2], 200)
    /\ Cardinality(Shared(chunks[2], chunks[3])) = 200

\* The lengths of the chunks, in order.
ChunkLengths == [k \in DOMAIN chunks |-> Len(chunks[k])]

\* The offsets the comprehension iterates over.
ChunkOffsets == Range(0, Len(full_text), chunk_size - overlap)

\* C7 as stated: "AB" repeated to length 2400 gives 3 chunks at offsets 0, 800
\* and 1600 with lengths 1000, 1000 and 400.
C7_AsStated ==
    (stage = "chunked" /\ full_text = ABText(2400)) =>
        /\ Len(chunks) = 3
        /\ ChunkOffsets = <<0, 800, 1600>>
        /\ \A k \in 1..3 : chunks[k] = SubSeq(full_text, 800 * (k - 1) + 1,
                                                 Min(800 * (k - 1) + 1000, 2400))
        /\ ChunkLengths = <<1000, 1000, 400>>

\* C7 amended: "AB" repeated to length 2400 gives 3 chunks at offsets 0, 800
\* and 1600 with lengths 1000, 1000 and 800.
C7_Lengths2400 ==
    (stage = "chunked" /\ full_text = ABText(2400)) =>
        /\ Len(chunks) = 3
        /\ ChunkOffsets = <<0, 800, 1600>>
        /\ \A k \in 1..3 : chunks[k] = SubSeq(full_text, 800 * (k - 1) + 1,
                                                 Min(800 * (k - 1) + 1000, 2400))
        /\ ChunkLengths = <<1000, 1000, 800>>

C7_Witness ==
    /\ stage = "chunked"
    /\ full_text = ABText(2400)
    /\ ChunkLengths = <<1000, 1000, 800>>

====
